---- MODULE Spec2Model ----
(***************************************************************************)
(* A model of ftxcontrol.py: the CAT transaction engine of the FTX-1       *)
(* controller (FTX1Controller._send_command) and the command catalog that  *)
(* rides on it.  A Python str is a sequence of one-character strings, a    *)
(* Python bytes object is a sequence of integers 0..255; encode('ascii')   *)
(* and decode('ascii') convert between the two and fail outside ASCII.     *)
(* The serial line is the input buffer rx (bytes the radio has sent and    *)
(* the host has not read yet) and the log of what the host did on it.      *)
(***************************************************************************)
EXTENDS Integers, Sequences, FiniteSets, TLC

VARIABLES
  pc,        \* "idle": between calls; "reading": inside _send_command's
             \* read loop; "done": the call has returned or raised
  call,      \* the catalog call in progress, or the last one made
  txn,       \* how many times that call has entered _send_command
  command,   \* _send_command's argument
  response,  \* _send_command's accumulator (bytes)
  ret,       \* how the last _send_command ended: the str returned, or raised
  result,    \* how the catalog call ended: the value returned, or raised
  rx,        \* the line: bytes sent by the radio and not read yet
  log,       \* the writes and reads the call has made on the line, in order
  budget,    \* single bytes the radio may still deliver during this call
  peer,      \* the radio's copy of the last setting frame it was sent
  line       \* the input stream as the call found it: the bytes unread when
             \* it was entered, then every byte the radio has sent since

vars == <<pc, call, txn, command, response, ret, result, rx, log, budget, peer, line>>

(***************************************************************************)
(* Bounds of the model.                                                    *)
(***************************************************************************)
\* Bytes the radio may put on the line, one at a time, during one call.
MaxDeliver == 2
\* Unread bytes the line may hold when a further single byte is delivered.
MaxPending == 1

(***************************************************************************)
(* Characters, bytes and the ASCII codec.                                  *)
(***************************************************************************)
\* The ASCII characters from space to Z, code points 32..90 in order: every
\* character of a catalog frame and of the replies delivered here.
Printable ==
  <<" ", "!", "\"", "#", "$", "%", "&", "'", "(", ")", "*", "+", ",", "-", ".", "/",
    "0", "1", "2", "3", "4", "5", "6", "7", "8", "9", ":", ";", "<", "=", ">", "?",
    "@", "A", "B", "C", "D", "E", "F", "G", "H", "I", "J", "K", "L", "M", "N", "O",
    "P", "Q", "R", "S", "T", "U", "V", "W", "X", "Y", "Z">>

chr(b) == Printable[b - 31]

ord(c) == 31 + (CHOOSE i \in 1..Len(Printable) : Printable[i] = c)

IsAscii(b) == b < 128

\* str.encode('ascii'): every character of the catalog's bodies is ASCII.
encode(s) == [i \in 1..Len(s) |-> ord(s[i])]

\* bytes.decode('ascii'): UnicodeDecodeError on any byte above 127.
decode(bs) ==
  IF \A i \in 1..Len(bs) : IsAscii(bs[i])
  THEN [ok |-> TRUE, s |-> [i \in 1..Len(bs) |-> chr(bs[i])]]
  ELSE [ok |-> FALSE, s |-> <<>>]

Terminator == ";"

DigitChars == <<"0", "1", "2", "3", "4", "5", "6", "7", "8", "9">>

IsDigit(c) == \E d \in 1..10 : DigitChars[d] = c

DigitValue(c) == (CHOOSE d \in 1..10 : DigitChars[d] = c) - 1

Min(a, b) == IF a < b THEN a ELSE b

Abs(n) == IF n >= 0 THEN n ELSE -n

(***************************************************************************)
(* Python's string operations as the catalog uses them.                    *)
(***************************************************************************)
\* The decimal digits of n >= 0, most significant first.
RECURSIVE Digits(_)
Digits(n) == IF n < 10 THEN <<DigitChars[n + 1]>>
             ELSE Append(Digits(n \div 10), DigitChars[(n % 10) + 1])

RECURSIVE Zeros(_)
Zeros(k) == IF k <= 0 THEN <<>> ELSE <<"0">> \o Zeros(k - 1)

\* str(n), as f"{n}" formats an int.
Str(n) == IF n >= 0 THEN Digits(n) ELSE <<"-">> \o Digits(-n)

\* f"{n:0Wd}": sign first, then zeros up to a total width of at least w.
Fmt0d(n, w) ==
  IF n >= 0 THEN Zeros(w - Len(Digits(n))) \o Digits(n)
  ELSE <<"-">> \o Zeros(w - 1 - Len(Digits(-n))) \o Digits(-n)

\* s[a:b] and s[a:] for a, b >= 0: the slice is clipped, never an error.
Slice(s, a, b) == SubSeq(s, a + 1, Min(b, Len(s)))

SliceFrom(s, a) == SubSeq(s, a + 1, Len(s))

\* s[i] for i >= 0 raises IndexError when i >= len(s).
HasIndex(s, i) == i < Len(s)

At(s, i) == s[i + 1]

RECURSIVE DigitsValue(_)
DigitsValue(s) == IF s = <<>> THEN 0
                  ELSE 10 * DigitsValue(SubSeq(s, 1, Len(s) - 1)) + DigitValue(s[Len(s)])

\* int(s) over the characters a reply can hold here (digits, letters, + -):
\* an optional sign and at least one digit, ValueError otherwise.
PyInt(s) ==
  LET signed == s # <<>> /\ s[1] \in {"+", "-"}
      body == IF signed THEN Tail(s) ELSE s
      good == body # <<>> /\ \A i \in 1..Len(body) : IsDigit(body[i])
  IN  IF ~good THEN [ok |-> FALSE, v |-> 0]
      ELSE [ok |-> TRUE,
            v |-> IF signed /\ s[1] = "-" THEN -DigitsValue(body) ELSE DigitsValue(body)]

(***************************************************************************)
(* Results of a catalog call.                                              *)
(***************************************************************************)
Pending == [kind |-> "pending", exc |-> "", val |-> <<>>]

Return(v) == [kind |-> "return", exc |-> "", val |-> v]

Raise(e) == [kind |-> "raise", exc |-> e, val |-> <<>>]

None == <<>>

(***************************************************************************)
(* Enumerations.                                                           *)
(***************************************************************************)
\* class OperatingMode(Enum): member name -> wire character.
OperatingMode ==
  [LSB |-> "1", USB |-> "2", CW_U |-> "3", FM |-> "4", AM |-> "5", RTTY_L |-> "6",
   CW_L |-> "7", DATA_L |-> "8", RTTY_U |-> "9", DATA_FM |-> "A", FM_N |-> "B",
   DATA_U |-> "C", AM_N |-> "D", PSK |-> "E", DATA_FM_N |-> "F", C4FM_DN |-> "H",
   C4FM_VW |-> "I"]

Modes == DOMAIN OperatingMode

\* mode.value
ModeValue(m) == OperatingMode[m]

Sides == {0, 1}

(***************************************************************************)
(* Arguments the callers pass: the documented ranges' ends, values inside  *)
(* and the first values outside.                                           *)
(***************************************************************************)
FreqInputs == {29999, 30000, 999999, 1000000, 14250000, 99999999, 100000000,
               470000000, 470000001}

ChannelInputs == {-5, 0, 1, 42, 99, 100}

WpmInputs == {3, 4, 60, 61}

PitchInputs == {290, 300, 705, 1050, 1060}

ShiftInputs == {-1220, -1200, 0, 1200, 1220}

OffsetInputs == {-9996, -9995, -50, -1, 0, 1, 100, 9995, 9996}

MeterTypes == {1, 8}

Cpus == {0, 5}

\* Single bytes the radio may put on the line: a digit, the terminator and
\* a byte outside ASCII (line noise).
RxBytes == {ord("1"), ord(Terminator), 255}

(***************************************************************************)
(* The transaction engine: FTX1Controller._send_command.                   *)
(***************************************************************************)
WriteEv(bs) == [op |-> "write", data |-> bs]

ReadEv(bs) == [op |-> "read", data |-> bs]

\* cmd = command + ';'
cmd(c) == c \o <<Terminator>>

\* self.ser.read(1): the next unread byte, or b'' when the timeout expires
\* with nothing on the line.
char == IF rx = <<>> THEN <<>> ELSE <<Head(rx)>>

\* The loop leaves only on a timeout: a terminator is appended like any byte.
LoopBreak_timeout_only(ch) == ch = <<>>

\* if not char or char == b';': break
LoopBreak(ch) == ch = <<>> \/ ch = encode(<<Terminator>>)

\* Lines 66-70: the write, and the empty accumulator the loop starts from.
send_command(c, before) ==
  /\ command' = c
  /\ log' = Append(before, WriteEv(encode(cmd(c))))
  /\ response' = <<>>
  /\ pc' = "reading"

(***************************************************************************)
(* The command catalog: how each function builds its command body.         *)
(***************************************************************************)
\* freq_str = f"{freq_hz:09d}"
freq_str(freq_hz) == Fmt0d(freq_hz, 9)

set_frequency_main_body(freq_hz) == <<"F", "A">> \o freq_str(freq_hz)

set_frequency_sub_body(freq_hz) == <<"F", "B">> \o freq_str(freq_hz)

\* The mode character is put before the side selector.
set_mode_body_swapped(mode, side) == <<"M", "D", ModeValue(mode)>> \o Str(side)

\* f"MD{side}{mode.value}"
set_mode_body(mode, side) == <<"M", "D">> \o Str(side) \o <<ModeValue(mode)>>

\* The lower end of the range is off by one.
ChannelOk_from_zero(channel) == 0 <= channel /\ channel <= 99

\* if not 1 <= channel <= 99: raise ValueError
ChannelOk(channel) == 1 <= channel /\ channel <= 99

\* f"MC{side}{channel:05d}"
set_memory_channel_body(channel, side) == <<"M", "C">> \o Str(side) \o Fmt0d(channel, 5)

\* Zero takes the minus sign.
sign_strict(offset_hz) == IF offset_hz > 0 THEN "+" ELSE "-"

\* sign = '+' if offset_hz >= 0 else '-'
sign(offset_hz) == IF offset_hz >= 0 THEN "+" ELSE "-"

Flag(b) == IF b THEN "1" ELSE "0"

\* f"CF{side}00{rx}{tx}000"
set_clarifier_flags_body(rx_on, tx_on, side) ==
  <<"C", "F">> \o Str(side) \o <<"0", "0", Flag(rx_on), Flag(tx_on), "0", "0", "0">>

\* f"CF{side}01{sign}{freq:04d}" with freq = abs(offset_hz)
set_clarifier_offset_body(offset_hz, side) ==
  <<"C", "F">> \o Str(side) \o <<"0", "1", sign(offset_hz)>> \o Fmt0d(Abs(offset_hz), 4)

\* f"KS{wpm:03d}"
set_cw_speed_body(wpm) == <<"K", "S">> \o Fmt0d(wpm, 3)

\* value = (pitch_hz - 300) // 10; f"KP{value:02d}"
set_cw_pitch_body(pitch_hz) == <<"K", "P">> \o Fmt0d((pitch_hz - 300) \div 10, 2)

\* f"IS{side}0{sign}{value:04d}" with value = abs(offset_hz)
set_if_shift_body(offset_hz, side) ==
  <<"I", "S">> \o Str(side) \o <<"0", sign(offset_hz)>> \o Fmt0d(Abs(offset_hz), 4)

(***************************************************************************)
(* The command catalog: how each query decodes the reply.                  *)
(***************************************************************************)
\* int(text) as the value of a return statement.
IntOf(text) == IF PyInt(text).ok THEN Return(PyInt(text).v) ELSE Raise("ValueError")

\* The slice starts one character late.
get_frequency_main_return_from3(resp) == IntOf(SliceFrom(resp, 3))

\* return int(response[2:])
get_frequency_main_return(resp) == IntOf(SliceFrom(resp, 2))

get_frequency_sub_return(resp) == IntOf(SliceFrom(resp, 2))

\* return response[3:]
get_mode_return(resp) == Return(SliceFrom(resp, 3))

get_agc_return(resp) == Return(SliceFrom(resp, 3))

get_firmware_version_return(resp) == Return(SliceFrom(resp, 3))

\* return response[2:]
get_id_return(resp) == Return(SliceFrom(resp, 2))

\* return int(response[3:6])
get_af_gain_return(resp) == IntOf(Slice(resp, 3, 6))

get_squelch_return(resp) == IntOf(Slice(resp, 3, 6))

get_s_meter_return(resp) == IntOf(Slice(resp, 3, 6))

\* return int(response[2:5])
get_cw_speed_return(resp) == IntOf(Slice(resp, 2, 5))

\* return response[2] == '2'
get_ptt_status_return(resp) ==
  IF HasIndex(resp, 2) THEN Return(At(resp, 2) = "2") ELSE Raise("IndexError")

\* return response[2] == '1'
get_split_return(resp) ==
  IF HasIndex(resp, 2) THEN Return(At(resp, 2) = "1") ELSE Raise("IndexError")

\* unit = int(response[2]); power = float(response[3:6]); over the replies
\* delivered here float() accepts what int() accepts.
get_rf_power_return(resp) ==
  IF ~HasIndex(resp, 2) THEN Raise("IndexError")
  ELSE IF ~PyInt(<<At(resp, 2)>>).ok THEN Raise("ValueError")
  ELSE IF ~PyInt(Slice(resp, 3, 6)).ok THEN Raise("ValueError")
  ELSE Return(<<PyInt(<<At(resp, 2)>>).v, PyInt(Slice(resp, 3, 6)).v>>)

\* primary = int(response[3:6]); secondary = int(response[6:9])
get_meter_reading_return(resp) ==
  IF ~PyInt(Slice(resp, 3, 6)).ok \/ ~PyInt(Slice(resp, 6, 9)).ok THEN Raise("ValueError")
  ELSE Return(<<PyInt(Slice(resp, 3, 6)).v, PyInt(Slice(resp, 6, 9)).v>>)

\* The dict display is evaluated entry by entry, the first failure is raised.
get_radio_info_return(resp) ==
  IF ~PyInt(Slice(resp, 7, 16)).ok THEN Raise("ValueError")
  ELSE IF ~HasIndex(resp, 16) THEN Raise("IndexError")
  ELSE IF ~PyInt(Slice(resp, 17, 21)).ok THEN Raise("ValueError")
  ELSE IF ~HasIndex(resp, 28) THEN Raise("IndexError")
  ELSE Return([memory_channel |-> Slice(resp, 2, 7),
               frequency |-> PyInt(Slice(resp, 7, 16)).v,
               clar_direction |-> At(resp, 16),
               clar_offset |-> PyInt(Slice(resp, 17, 21)).v,
               rx_clar |-> At(resp, 21) = "1",
               tx_clar |-> At(resp, 22) = "1",
               mode |-> At(resp, 23),
               vfo_memory |-> At(resp, 24),
               tone_mode |-> At(resp, 25),
               repeater_shift |-> At(resp, 28)])

Setters == {"set_frequency_main", "set_frequency_sub", "set_mode", "set_memory_channel",
            "set_clarifier", "set_cw_speed", "set_cw_pitch", "set_if_shift"}

Decoders == {"get_frequency_main", "get_frequency_sub", "get_mode", "get_agc",
             "get_af_gain", "get_squelch", "get_s_meter", "get_meter_reading",
             "get_rf_power", "get_cw_speed", "get_ptt_status", "get_split",
             "get_radio_info", "get_id", "get_firmware_version"}

\* What the catalog function does with the str _send_command returned: a
\* setter discards it and returns None, a query decodes it.
Returned(fn, resp) ==
  CASE fn \in Setters -> Return(None)
    [] fn = "get_frequency_main" -> get_frequency_main_return(resp)
    [] fn = "get_frequency_sub" -> get_frequency_sub_return(resp)
    [] fn = "get_mode" -> get_mode_return(resp)
    [] fn = "get_agc" -> get_agc_return(resp)
    [] fn = "get_af_gain" -> get_af_gain_return(resp)
    [] fn = "get_squelch" -> get_squelch_return(resp)
    [] fn = "get_s_meter" -> get_s_meter_return(resp)
    [] fn = "get_meter_reading" -> get_meter_reading_return(resp)
    [] fn = "get_rf_power" -> get_rf_power_return(resp)
    [] fn = "get_cw_speed" -> get_cw_speed_return(resp)
    [] fn = "get_ptt_status" -> get_ptt_status_return(resp)
    [] fn = "get_split" -> get_split_return(resp)
    [] fn = "get_radio_info" -> get_radio_info_return(resp)
    [] fn = "get_id" -> get_id_return(resp)
    [] fn = "get_firmware_version" -> get_firmware_version_return(resp)

(***************************************************************************)
(* The radio at the other end of the line.                                 *)
(***************************************************************************)
NoPeer == [fn |-> "none", n |-> 0, frame |-> <<>>, sent |-> FALSE]

\* The query that reads back what a setter set.
Query(fn) ==
  CASE fn = "set_frequency_main" -> "get_frequency_main"
    [] fn = "set_frequency_sub" -> "get_frequency_sub"
    [] fn = "set_clarifier" -> "get_radio_info"
    [] OTHER -> "none"

\* The radio keeps the setting frame it was sent, with the argument it
\* came from, until a call other than the matching query is made.
Heard(fn, n, frame) == [fn |-> fn, n |-> n, frame |-> frame, sent |-> FALSE]

KeepPeer(fn) == IF Query(peer.fn) = fn THEN [peer EXCEPT !.sent = FALSE] ELSE NoPeer

\* The radio's answer to the matching query.  A frequency frame comes back
\* as it was written.  The IF status reply is the 29-character layout
\* get_radio_info slices, its clarifier direction and offset (characters
\* 16..20) taken from the CF offset frame (sign and four digits).
Reply(p) ==
  IF p.fn = "set_clarifier"
  THEN encode(<<"I", "F">> \o <<"0", "0", "0", "0", "1">>
              \o <<"0", "1", "4", "2", "5", "0", "0", "0", "0">>)
       \o SubSeq(p.frame, 6, 10)
       \o encode(<<"1", "0", "2", "0", "0", "0", "0", "0", Terminator>>)
  ELSE p.frame

(***************************************************************************)
(* Calls.                                                                  *)
(***************************************************************************)
NoCall == [fn |-> "none", n |-> 0, side |-> 0, rx_on |-> FALSE, tx_on |-> FALSE,
           mode |-> "none"]

Args(fn, n, side) == [NoCall EXCEPT !.fn = fn, !.n = n, !.side = side]

NoRet == [kind |-> "none", s |-> <<>>]

LastWrite(l) == l[Len(l)].data

\* A catalog function is entered and reaches its first _send_command.
Invoke(c, body) ==
  /\ pc = "idle"
  /\ call' = c
  /\ txn' = 1
  /\ ret' = NoRet
  /\ result' = Pending
  /\ budget' = MaxDeliver
  /\ send_command(body, <<>>)
  /\ peer' = IF Query(c.fn) # "none" /\ c.fn # "set_clarifier"
             THEN Heard(c.fn, c.n, LastWrite(log'))
             ELSE KeepPeer(c.fn)
  /\ line' = rx
  /\ UNCHANGED rx

\* A catalog function raises before it reaches _send_command.
Reject(c, e) ==
  /\ pc = "idle"
  /\ call' = c
  /\ txn' = 0
  /\ command' = <<>>
  /\ response' = <<>>
  /\ ret' = NoRet
  /\ result' = Raise(e)
  /\ budget' = MaxDeliver
  /\ log' = <<>>
  /\ peer' = NoPeer
  /\ pc' = "done"
  /\ line' = rx
  /\ UNCHANGED rx

set_frequency_main ==
  \E freq_hz \in FreqInputs :
    Invoke(Args("set_frequency_main", freq_hz, 0), set_frequency_main_body(freq_hz))

get_frequency_main == Invoke(Args("get_frequency_main", 0, 0), <<"F", "A">>)

set_frequency_sub ==
  \E freq_hz \in FreqInputs :
    Invoke(Args("set_frequency_sub", freq_hz, 1), set_frequency_sub_body(freq_hz))

get_frequency_sub == Invoke(Args("get_frequency_sub", 0, 1), <<"F", "B">>)

set_mode ==
  \E mode \in Modes, side \in Sides :
    Invoke([Args("set_mode", 0, side) EXCEPT !.mode = mode], set_mode_body(mode, side))

get_mode ==
  \E side \in Sides : Invoke(Args("get_mode", 0, side), <<"M", "D">> \o Str(side))

get_ptt_status == Invoke(Args("get_ptt_status", 0, 0), <<"T", "X">>)

get_rf_power == Invoke(Args("get_rf_power", 0, 0), <<"P", "C">>)

get_agc ==
  \E side \in Sides : Invoke(Args("get_agc", 0, side), <<"G", "T">> \o Str(side))

get_af_gain ==
  \E side \in Sides : Invoke(Args("get_af_gain", 0, side), <<"A", "G">> \o Str(side))

get_squelch ==
  \E side \in Sides : Invoke(Args("get_squelch", 0, side), <<"S", "Q">> \o Str(side))

get_s_meter ==
  \E side \in Sides : Invoke(Args("get_s_meter", 0, side), <<"S", "M">> \o Str(side))

get_meter_reading ==
  \E meter_type \in MeterTypes :
    Invoke(Args("get_meter_reading", meter_type, 0), <<"R", "M">> \o Str(meter_type))

set_memory_channel ==
  \E channel \in ChannelInputs, side \in Sides :
    IF ChannelOk(channel)
    THEN Invoke(Args("set_memory_channel", channel, side),
                set_memory_channel_body(channel, side))
    ELSE Reject(Args("set_memory_channel", channel, side), "ValueError")

get_split == Invoke(Args("get_split", 0, 0), <<"S", "T">>)

\* The first of set_clarifier's two transactions; the second follows in
\* set_clarifier_offset once the first has returned.
set_clarifier ==
  \E rx_on \in BOOLEAN, offset_hz \in OffsetInputs, side \in Sides :
    Invoke([Args("set_clarifier", offset_hz, side) EXCEPT !.rx_on = rx_on, !.tx_on = ~rx_on],
           set_clarifier_flags_body(rx_on, ~rx_on, side))

set_cw_speed ==
  \E wpm \in WpmInputs : Invoke(Args("set_cw_speed", wpm, 0), set_cw_speed_body(wpm))

get_cw_speed == Invoke(Args("get_cw_speed", 0, 0), <<"K", "S">>)

set_cw_pitch ==
  \E pitch_hz \in PitchInputs :
    Invoke(Args("set_cw_pitch", pitch_hz, 0), set_cw_pitch_body(pitch_hz))

set_if_shift ==
  \E offset_hz \in ShiftInputs, side \in Sides :
    Invoke(Args("set_if_shift", offset_hz, side), set_if_shift_body(offset_hz, side))

get_radio_info == Invoke(Args("get_radio_info", 0, 0), <<"I", "F">>)

get_id == Invoke(Args("get_id", 0, 0), <<"I", "D">>)

get_firmware_version ==
  \E cpu \in Cpus : Invoke(Args("get_firmware_version", cpu, 0), <<"V", "E">> \o Str(cpu))

(***************************************************************************)
(* _send_command's read loop, one self.ser.read(1) per step.               *)
(***************************************************************************)
\* The read drains the line: every pending byte is taken, one is kept.
Consume_drain == rx' = <<>>

\* The byte read leaves the line.
Consume == rx' = IF rx = <<>> THEN rx ELSE Tail(rx)

\* response += char
send_command_read ==
  /\ pc = "reading"
  /\ ~LoopBreak(char)
  /\ response' = response \o char
  /\ Consume
  /\ log' = Append(log, ReadEv(char))
  /\ UNCHANGED <<pc, call, txn, command, ret, result, budget, peer, line>>

\* break, and response.decode('ascii') raises: the catalog call ends there.
send_command_raise ==
  /\ pc = "reading"
  /\ LoopBreak(char)
  /\ ~decode(response).ok
  /\ Consume
  /\ log' = Append(log, ReadEv(char))
  /\ ret' = [kind |-> "raise", s |-> <<>>]
  /\ result' = Raise("UnicodeDecodeError")
  /\ pc' = "done"
  /\ UNCHANGED <<call, txn, command, response, budget, peer, line>>

\* An empty reply on a timeout is answered with a second write of the frame.
send_command_return_retry ==
  /\ pc = "reading"
  /\ LoopBreak(char)
  /\ decode(response).ok
  /\ ~(call.fn = "set_clarifier" /\ txn = 1)
  /\ Consume
  /\ IF char = <<>> /\ response = <<>>
     THEN /\ log' = Append(Append(log, ReadEv(char)), WriteEv(encode(cmd(command))))
          /\ UNCHANGED <<pc, ret, result>>
     ELSE /\ log' = Append(log, ReadEv(char))
          /\ ret' = [kind |-> "return", s |-> decode(response).s]
          /\ result' = Returned(call.fn, decode(response).s)
          /\ pc' = "done"
  /\ UNCHANGED <<call, txn, command, response, budget, peer, line>>

\* break, and the decoded str goes back to the catalog function, which
\* returns.
send_command_return ==
  /\ pc = "reading"
  /\ LoopBreak(char)
  /\ decode(response).ok
  /\ ~(call.fn = "set_clarifier" /\ txn = 1)
  /\ Consume
  /\ log' = Append(log, ReadEv(char))
  /\ ret' = [kind |-> "return", s |-> decode(response).s]
  /\ result' = Returned(call.fn, decode(response).s)
  /\ pc' = "done"
  /\ UNCHANGED <<call, txn, command, response, budget, peer, line>>

\* break in set_clarifier's first transaction: the reply is discarded and
\* the offset frame is sent.
set_clarifier_offset ==
  /\ pc = "reading"
  /\ LoopBreak(char)
  /\ decode(response).ok
  /\ call.fn = "set_clarifier" /\ txn = 1
  /\ Consume
  /\ ret' = [kind |-> "return", s |-> decode(response).s]
  /\ txn' = 2
  /\ send_command(set_clarifier_offset_body(call.n, call.side), Append(log, ReadEv(char)))
  /\ peer' = Heard("set_clarifier", call.n, LastWrite(log'))
  /\ UNCHANGED <<call, result, budget, line>>

\* The caller has the outcome and goes on to its next call; what is on
\* the line stays there.
Continue ==
  /\ pc = "done"
  /\ pc' = "idle"
  /\ call' = NoCall
  /\ txn' = 0
  /\ command' = <<>>
  /\ response' = <<>>
  /\ ret' = NoRet
  /\ result' = Pending
  /\ log' = <<>>
  /\ budget' = MaxDeliver
  /\ line' = rx
  /\ UNCHANGED <<rx, peer>>

(***************************************************************************)
(* The radio's side of the line.                                           *)
(***************************************************************************)
\* One more byte arrives.
Deliver ==
  \E b \in RxBytes :
    /\ pc # "done"
    /\ budget > 0
    /\ Len(rx) < MaxPending
    /\ rx' = Append(rx, b)
    /\ line' = Append(line, b)
    /\ budget' = budget - 1
    /\ UNCHANGED <<pc, call, txn, command, response, ret, result, log, peer>>

\* The radio answers the query of a setting it holds.
RadioReply ==
  /\ pc = "reading"
  /\ peer.fn # "none"
  /\ ~peer.sent
  /\ call.fn = Query(peer.fn)
  /\ rx' = rx \o Reply(peer)
  /\ line' = line \o Reply(peer)
  /\ peer' = [peer EXCEPT !.sent = TRUE]
  /\ UNCHANGED <<pc, call, txn, command, response, ret, result, log, budget>>

Init ==
  /\ pc = "idle"
  /\ call = NoCall
  /\ txn = 0
  /\ command = <<>>
  /\ response = <<>>
  /\ ret = NoRet
  /\ result = Pending
  /\ rx = <<>>
  /\ log = <<>>
  /\ budget = MaxDeliver
  /\ peer = NoPeer
  /\ line = <<>>

Next ==
  \/ set_frequency_main
  \/ get_frequency_main
  \/ set_frequency_sub
  \/ get_frequency_sub
  \/ set_mode
  \/ get_mode
  \/ get_ptt_status
  \/ get_rf_power
  \/ get_agc
  \/ get_af_gain
  \/ get_squelch
  \/ get_s_meter
  \/ get_meter_reading
  \/ set_memory_channel
  \/ get_split
  \/ set_clarifier
  \/ set_cw_speed
  \/ get_cw_speed
  \/ set_cw_pitch
  \/ set_if_shift
  \/ get_radio_info
  \/ get_id
  \/ get_firmware_version
  \/ send_command_read
  \/ send_command_raise
  \/ send_command_return
  \/ set_clarifier_offset
  \/ Continue
  \/ Deliver
  \/ RadioReply

Spec == Init /\ [][Next]_vars

(***************************************************************************)
(* What the log of a call shows.                                           *)
(***************************************************************************)
Semicolon == <<59>>

Writes == {i \in 1..Len(log) : log[i].op = "write"}

\* A read that ends a read cycle: a timeout or the terminator.
Terminal(e) == e.op = "read" /\ (e.data = <<>> \/ e.data = Semicolon)

LastWriteAt == CHOOSE i \in Writes : \A j \in Writes : j <= i

\* The bytes of the reads log[i..j], in order.
RECURSIVE BytesRead(_, _)
BytesRead(i, j) == IF i > j THEN <<>> ELSE log[i].data \o BytesRead(i + 1, j)

Count(seq, x) == Cardinality({i \in 1..Len(seq) : seq[i] = x})

TimedOut == pc = "done" /\ txn > 0 /\ log[Len(log)] = ReadEv(<<>>)

\* The argument of the call lies outside the range its docstring states.
OutOfRange(c) ==
  \/ c.fn \in {"set_frequency_main", "set_frequency_sub"} /\ (c.n < 30000 \/ c.n > 470000000)
  \/ c.fn = "set_cw_speed" /\ (c.n < 4 \/ c.n > 60)
  \/ c.fn = "set_cw_pitch" /\ (c.n < 300 \/ c.n > 1050)
  \/ c.fn = "set_if_shift" /\ (c.n < -1200 \/ c.n > 1200)
  \/ c.fn = "set_clarifier" /\ (c.n < -9995 \/ c.n > 9995)

(***************************************************************************)
(* C1: the string _send_command returns never contains the terminator ';'. *)
(***************************************************************************)
C1_ReplyHasNoTerminator ==
  ret.kind = "return" => \A i \in 1..Len(ret.s) : ret.s[i] # ";"

\* A call that ended on a terminator, with a reply in hand and more bytes,
\* a terminator among them, still on the line.
C1_Witness ==
  /\ pc = "done"
  /\ ret.kind = "return"
  /\ ret.s # <<>>
  /\ log[Len(log)] = ReadEv(Semicolon)
  /\ \E i \in 1..Len(rx) : rx[i] = 59

(***************************************************************************)
(* C2: each _send_command call makes exactly one write, of the body        *)
(* followed by exactly one ';', before its first read, and never writes    *)
(* again whatever the reads return (no retry on a timeout or an empty      *)
(* reply).  txn counts the _send_command calls of the catalog call: the    *)
(* log holds one write per call, each at the head of its own read cycle.   *)
(***************************************************************************)
C2_OneWritePerTransaction ==
  /\ Cardinality(Writes) = txn
  /\ Len(log) > 0 => log[1].op = "write"
  /\ \A i \in Writes : i > 1 => call.fn = "set_clarifier" /\ Terminal(log[i - 1])
  /\ \A i \in 2..Len(log) : Terminal(log[i - 1]) => log[i].op = "write"
  /\ txn > 0 => log[LastWriteAt].data = encode(command) \o Semicolon

\* A call whose only read timed out with nothing read: one write, no retry.
C2_Witness ==
  /\ pc = "done"
  /\ txn = 1
  /\ Len(log) = 2
  /\ log[2] = ReadEv(<<>>)
  /\ ret = [kind |-> "return", s |-> <<>>]

(***************************************************************************)
(* C3: when no ';' arrives and a read times out, _send_command ends and    *)
(* returns exactly the bytes read before the timed-out read, in order.     *)
(***************************************************************************)
C3_TimeoutReturnsBytesRead ==
  (TimedOut /\ ~OutOfRange(call)) =>
    /\ ret.kind = "return"
    /\ encode(ret.s) = BytesRead(LastWriteAt + 1, Len(log))

\* What the code does on a timeout: it returns the bytes read when all of
\* them are ASCII, and raises UnicodeDecodeError otherwise.
TimeoutOutcome ==
  TimedOut =>
    IF \A i \in 1..Len(response) : response[i] < 128
    THEN ret.kind = "return" /\ encode(ret.s) = BytesRead(LastWriteAt + 1, Len(log))
    ELSE ret.kind = "raise" /\ result.exc = "UnicodeDecodeError"

(***************************************************************************)
(* C4: set_memory_channel with a channel outside 1..99 raises ValueError   *)
(* and neither writes nor reads; with a channel inside 1..99 it makes      *)
(* exactly one transaction.                                                *)
(***************************************************************************)
C4_MemoryChannelRange ==
  call.fn = "set_memory_channel" =>
    IF call.n >= 1 /\ call.n <= 99
    THEN /\ txn = 1
         /\ Cardinality(Writes) = 1
         /\ log[1].op = "write"
         /\ pc = "done" => Terminal(log[Len(log)]) /\ result.exc # "ValueError"
    ELSE /\ pc = "done"
         /\ result.kind = "raise" /\ result.exc = "ValueError"
         /\ log = <<>>
         /\ txn = 0

\* Channel 100 is refused while unread bytes sit on the line, untouched.
C4_Witness ==
  /\ call.fn = "set_memory_channel"
  /\ call.n = 100
  /\ result.exc = "ValueError"
  /\ log = <<>>
  /\ rx # <<>>

(***************************************************************************)
(* C5: every decoder fails with a parse error on a reply that is empty or  *)
(* shorter than its field layout; none returns a partial or default value. *)
(***************************************************************************)
\* The length of each query's reply body: mnemonic, selector, fields.
LayoutLen(fn) ==
  CASE fn \in {"get_frequency_main", "get_frequency_sub"} -> 11
    [] fn \in {"get_mode", "get_agc", "get_firmware_version"} -> 4
    [] fn \in {"get_af_gain", "get_squelch", "get_s_meter", "get_rf_power", "get_id"} -> 6
    [] fn = "get_meter_reading" -> 9
    [] fn = "get_cw_speed" -> 5
    [] fn \in {"get_ptt_status", "get_split"} -> 3
    [] fn = "get_radio_info" -> 29

C5_ShortReplyRaises ==
  (/\ pc = "done"
   /\ call.fn \in Decoders
   /\ ret.kind = "return"
   /\ Len(ret.s) < LayoutLen(call.fn)) => result.kind = "raise"

(***************************************************************************)
(* C6: set_frequency_main/sub outside 30000..470000000, set_cw_speed       *)
(* outside 4..60, set_cw_pitch outside 300..1050, set_if_shift outside     *)
(* -1200..1200 and set_clarifier outside -9995..9995 raise an invalid      *)
(* argument error before any byte is written.                              *)
(***************************************************************************)
C6_RangesValidated ==
  OutOfRange(call) => result.kind = "raise" /\ result.exc = "ValueError" /\ log = <<>>

(***************************************************************************)
(* C7: set_clarifier makes exactly two transactions: the flags frame       *)
(* CF{side}00{rx}{tx}000; first, its read cycle run to the end, and only   *)
(* then the offset frame CF{side}01{sign}{4 digits};.                      *)
(***************************************************************************)
C7_ClarifierTwoTransactions ==
  (call.fn = "set_clarifier" /\ pc = "done" /\ ~OutOfRange(call)) =>
    /\ Cardinality(Writes) = 2
    /\ log[1].op = "write"
    /\ SubSeq(log[1].data, 4, 5) = encode(<<"0", "0">>)
    /\ SubSeq(log[LastWriteAt].data, 4, 5) = encode(<<"0", "1">>)
    /\ Terminal(log[LastWriteAt - 1])
    /\ Terminal(log[Len(log)])

\* What the code does: the offset frame is written only after the flags
\* frame and the end of its read cycle, and a set_clarifier that returns has
\* made both transactions; one that raises in the first has made only one.
ClarifierOrder ==
  call.fn = "set_clarifier" =>
    /\ log[1].data = encode(cmd(set_clarifier_flags_body(call.rx_on, call.tx_on, call.side)))
    /\ \A i \in Writes : i > 1 =>
         /\ Terminal(log[i - 1])
         /\ log[i].data = encode(cmd(set_clarifier_offset_body(call.n, call.side)))
    /\ pc = "done" =>
         IF result.kind = "return" THEN Cardinality(Writes) = 2
         ELSE result.exc = "UnicodeDecodeError" /\ Cardinality(Writes) \in {1, 2}

(***************************************************************************)
(* C8: for f in 30000..470000000 the body set_frequency_main/sub writes is *)
(* the mnemonic and exactly 9 decimal digits, and when that body comes     *)
(* back as the reply to get_frequency_main/sub the value decoded is f.     *)
(***************************************************************************)
InFreqRange(f) == f >= 30000 /\ f <= 470000000

C8_FrequencyRoundTrip ==
  /\ (call.fn \in {"set_frequency_main", "set_frequency_sub"} /\ InFreqRange(call.n)) =>
       /\ Len(command) = 11
       /\ SubSeq(command, 1, 2) = (IF call.fn = "set_frequency_main"
                                   THEN <<"F", "A">> ELSE <<"F", "B">>)
       /\ \A i \in 3..11 : IsDigit(command[i])
  /\ (/\ pc = "done"
      /\ call.fn \in {"get_frequency_main", "get_frequency_sub"}
      /\ peer.fn \in {"set_frequency_main", "set_frequency_sub"}
      /\ InFreqRange(peer.n)
      /\ ret.kind = "return"
      /\ encode(ret.s) \o Semicolon = peer.frame) =>
       result.kind = "return" /\ result.val = peer.n

\* 470000000 Hz written by set_frequency_sub, echoed, and read back.
C8_Witness ==
  /\ pc = "done"
  /\ call.fn = "get_frequency_sub"
  /\ peer.fn = "set_frequency_sub"
  /\ peer.n = 470000000
  /\ encode(ret.s) \o Semicolon = peer.frame
  /\ result.kind = "return"
  /\ result.val = 470000000

(***************************************************************************)
(* C9: for an offset in -9995..9995 the offset frame of set_clarifier      *)
(* carries one sign character ('+' for offset >= 0, '-' otherwise) and     *)
(* then exactly 4 zero-padded digits of the absolute value, and the        *)
(* direction and offset get_radio_info decodes from those five characters  *)
(* give back the signed offset.                                            *)
(***************************************************************************)
InOffsetRange(n) == n >= -9995 /\ n <= 9995

Signed(direction, magnitude) == IF direction = "-" THEN -magnitude ELSE magnitude

C9_ClarifierOffsetRoundTrip ==
  /\ (call.fn = "set_clarifier" /\ txn = 2 /\ InOffsetRange(call.n)) =>
       /\ Len(command) = 10
       /\ command[6] = (IF call.n >= 0 THEN "+" ELSE "-")
       /\ Count(command, "+") + Count(command, "-") = 1
       /\ \A i \in 7..10 : IsDigit(command[i])
       /\ DigitsValue(SubSeq(command, 7, 10)) = Abs(call.n)
  /\ (/\ pc = "done"
      /\ call.fn = "get_radio_info"
      /\ peer.fn = "set_clarifier"
      /\ InOffsetRange(peer.n)
      /\ result.kind = "return"
      /\ encode(Slice(ret.s, 16, 21)) = SubSeq(peer.frame, 6, 10)) =>
       Signed(result.val.clar_direction, result.val.clar_offset) = peer.n

\* -9995 Hz written by set_clarifier and read back from the IF reply.
C9_Witness ==
  /\ pc = "done"
  /\ call.fn = "get_radio_info"
  /\ peer.fn = "set_clarifier"
  /\ peer.n = -9995
  /\ result.kind = "return"
  /\ encode(Slice(ret.s, 16, 21)) = SubSeq(peer.frame, 6, 10)
  /\ result.val.clar_direction = "-"
  /\ result.val.clar_offset = 9995

(***************************************************************************)
(* C10: for each side and each of the 17 operating modes set_mode writes   *)
(* exactly 'MD', the side, the mode's wire character and ';', the only ';' *)
(* of the frame and its last character; distinct modes have distinct wire  *)
(* characters.                                                             *)
(***************************************************************************)
C10_SetModeFrame ==
  /\ Cardinality(Modes) = 17
  /\ \A m1, m2 \in Modes : m1 # m2 => OperatingMode[m1] # OperatingMode[m2]
  /\ call.fn = "set_mode" =>
       /\ Cardinality(Writes) = 1
       /\ log[1].data = encode(<<"M", "D", DigitChars[call.side + 1],
                                 OperatingMode[call.mode], ";">>)
       /\ Count(log[1].data, 59) = 1
       /\ log[1].data[Len(log[1].data)] = 59

\* set_mode(OperatingMode.C4FM_VW, side=1) has written MD1I; and returned.
C10_Witness ==
  /\ pc = "done"
  /\ call.fn = "set_mode"
  /\ call.mode = "C4FM_VW"
  /\ call.side = 1
  /\ result.kind = "return"
  /\ log[1].data = <<77, 68, 49, 73, 59>>

(***************************************************************************)
(* C11: _send_command takes nothing from the line beyond the first ';' it  *)
(* reads and discards no pending input before it writes.  The stream the   *)
(* call found (line) is, at every moment, the bytes its reads returned, in *)
(* order, followed by the bytes still unread.  A transaction that ends on  *)
(* a terminator has consumed exactly the first terminated frame of what    *)
(* the line held for it, whatever command was sent, and the str it returns *)
(* is that frame without its ';'; everything after that ';' is still       *)
(* unread, so the next call starts at the next frame.                      *)
(***************************************************************************)
\* The bytes returned by the reads among log[i..j], in order.
RECURSIVE ReadsOf(_, _)
ReadsOf(i, j) ==
  IF i > j THEN <<>>
  ELSE (IF log[i].op = "read" THEN log[i].data ELSE <<>>) \o ReadsOf(i + 1, j)

\* The last transaction's read cycle has ended on the terminator.
EndedOnTerminator == pc = "done" /\ txn > 0 /\ log[Len(log)] = ReadEv(Semicolon)

====
